---- MODULE Spec2Model ----
(***************************************************************************)
(* Model of the `rustc` subcommand of unreal_rust_compile (src/main.rs):   *)
(* the link-command tokenizer parse_quotes and the pass of main() that     *)
(* runs cargo, gates on the last stdout line, validates the linker front   *)
(* end and classifies every token into the linker and the LIB.EXE          *)
(* argument files.                                                         *)
(*                                                                         *)
(* Strings are sequences of one-character strings, so that tokenizing,     *)
(* slicing and formatting are computed character by character as the code  *)
(* does.  A file is NoFile or the sequence of its lines.                   *)
(***************************************************************************)
EXTENDS Integers, Sequences, FiniteSets, TLC

(***************************************************************************)
(* String literals of the source.                                          *)
(***************************************************************************)
\* link.exe
s_link_exe ==
    <<"l", "i", "n", "k", ".", "e", "x", "e">>
\* lld-link.exe
s_lld_link_exe ==
    <<"l", "l", "d", "-", "l", "i", "n", "k", ".", "e", "x", "e">>
\* rust-lld.exe
s_rust_lld_exe ==
    <<"r", "u", "s", "t", "-", "l", "l", "d", ".", "e", "x", "e">>
\* LIBPATH
s_LIBPATH ==
    <<"L", "I", "B", "P", "A", "T", "H">>
\* IMPLIB
s_IMPLIB ==
    <<"I", "M", "P", "L", "I", "B">>
\* flavor
s_flavor ==
    <<"f", "l", "a", "v", "o", "r">>
\* DEF
s_DEF ==
    <<"D", "E", "F">>
\* .def
s_dot_def ==
    <<".", "d", "e", "f">>
\* .exe
s_dot_exe ==
    <<".", "e", "x", "e">>
\* .o
s_dot_o ==
    <<".", "o">>
\* .rlib
s_dot_rlib ==
    <<".", "r", "l", "i", "b">>
\* build_def.def
s_build_def_def ==
    <<"b", "u", "i", "l", "d", "_", "d", "e", "f", ".", "d", "e", "f">>

QUOTE == "\""
BACKSLASH == "\\"
SPACE == " "

(***************************************************************************)
(* str methods used by the source.                                         *)
(***************************************************************************)
starts_with(s, p) ==
    /\ Len(s) >= Len(p)
    /\ SubSeq(s, 1, Len(p)) = p

ends_with(s, p) ==
    /\ Len(s) >= Len(p)
    /\ SubSeq(s, Len(s) - Len(p) + 1, Len(s)) = p

contains(s, p) ==
    \E i \in 1..(Len(s) - Len(p) + 1) : SubSeq(s, i, i + Len(p) - 1) = p

\* str::find of a character: 1-based position of its first occurrence, 0 for None
find(s, c) ==
    IF \E i \in 1..Len(s) : s[i] = c
    THEN CHOOSE i \in 1..Len(s) : s[i] = c /\ \A j \in 1..(i - 1) : s[j] # c
    ELSE 0

\* position of the last character of s that is in set cs, 0 if there is none
rfind(s, cs) ==
    IF \E i \in 1..Len(s) : s[i] \in cs
    THEN CHOOSE i \in 1..Len(s) : s[i] \in cs /\ \A j \in (i + 1)..Len(s) : s[j] \notin cs
    ELSE 0

(***************************************************************************)
(* parse_quotes: one left-to-right scan with the state (args, in_string,   *)
(* escaping, current_str).                                                 *)
(***************************************************************************)
pq_init ==
    [args |-> <<>>, in_string |-> FALSE, escaping |-> FALSE, current_str |-> <<>>]

\* mutant of pq_flush: the current run is pushed even when it is empty
pq_flush_always(st) ==
    Append(st.args, st.current_str)

pq_flush(st) ==
    IF st.current_str # <<>> THEN Append(st.args, st.current_str) ELSE st.args

\* mutant of pq_step: an opening quote does not end the current unquoted run
pq_step_quote_joins(st, x) ==
    IF st.in_string
    THEN IF x = BACKSLASH /\ ~st.escaping
         THEN [st EXCEPT !.escaping = TRUE]
         ELSE IF x = QUOTE /\ ~st.escaping
              THEN [st EXCEPT !.args = pq_flush(st),
                              !.current_str = <<>>,
                              !.in_string = FALSE]
              ELSE [st EXCEPT !.current_str = Append(st.current_str, x),
                              !.escaping = FALSE]
    ELSE IF x = SPACE
         THEN [st EXCEPT !.args = pq_flush(st), !.current_str = <<>>]
         ELSE IF x = QUOTE
              THEN [st EXCEPT !.in_string = TRUE]
              ELSE [st EXCEPT !.current_str = Append(st.current_str, x)]

\* mutant of pq_step: a space pushes the current run but does not start a new one
pq_step_space_keeps(st, x) ==
    IF st.in_string
    THEN IF x = BACKSLASH /\ ~st.escaping
         THEN [st EXCEPT !.escaping = TRUE]
         ELSE IF x = QUOTE /\ ~st.escaping
              THEN [st EXCEPT !.args = pq_flush(st),
                              !.current_str = <<>>,
                              !.in_string = FALSE]
              ELSE [st EXCEPT !.current_str = Append(st.current_str, x),
                              !.escaping = FALSE]
    ELSE IF x = SPACE
         THEN [st EXCEPT !.args = pq_flush(st)]
         ELSE IF x = QUOTE
              THEN [st EXCEPT !.args = pq_flush(st),
                              !.in_string = TRUE,
                              !.current_str = <<>>]
              ELSE [st EXCEPT !.current_str = Append(st.current_str, x)]

\* mutant of pq_step: the escaping flag is not cleared after the escaped character
pq_step_escape_sticks(st, x) ==
    IF st.in_string
    THEN IF x = BACKSLASH /\ ~st.escaping
         THEN [st EXCEPT !.escaping = TRUE]
         ELSE IF x = QUOTE /\ ~st.escaping
              THEN [st EXCEPT !.args = pq_flush(st),
                              !.current_str = <<>>,
                              !.in_string = FALSE]
              ELSE [st EXCEPT !.current_str = Append(st.current_str, x)]
    ELSE IF x = SPACE
         THEN [st EXCEPT !.args = pq_flush(st), !.current_str = <<>>]
         ELSE IF x = QUOTE
              THEN [st EXCEPT !.args = pq_flush(st),
                              !.in_string = TRUE,
                              !.current_str = <<>>]
              ELSE [st EXCEPT !.current_str = Append(st.current_str, x)]

pq_step(st, x) ==
    IF st.in_string
    THEN IF x = BACKSLASH /\ ~st.escaping
         THEN [st EXCEPT !.escaping = TRUE]
         ELSE IF x = QUOTE /\ ~st.escaping
              THEN [st EXCEPT !.args = pq_flush(st),
                              !.current_str = <<>>,
                              !.in_string = FALSE]
              ELSE [st EXCEPT !.current_str = Append(st.current_str, x),
                              !.escaping = FALSE]
    ELSE IF x = SPACE
         THEN [st EXCEPT !.args = pq_flush(st), !.current_str = <<>>]
         ELSE IF x = QUOTE
              THEN [st EXCEPT !.args = pq_flush(st),
                              !.in_string = TRUE,
                              !.current_str = <<>>]
              ELSE [st EXCEPT !.current_str = Append(st.current_str, x)]

\* the for loop over s[lo..hi], started in state st.  The range is scanned as
\* two halves, the left one first; testing its result makes TLC evaluate it
\* before the right half starts (LET definitions are evaluated on demand),
\* which keeps the evaluation stack shallow on long lines.
RECURSIVE pq_scan(_, _, _, _)
pq_scan(s, lo, hi, st) ==
    IF lo > hi THEN st
    ELSE IF lo = hi THEN pq_step(st, s[lo])
    ELSE LET mid == (lo + hi) \div 2
             left == pq_scan(s, lo, mid, st)
         IN  IF Len(left.args) >= 0 THEN pq_scan(s, mid + 1, hi, left) ELSE left

\* mutant of parse_quotes: the text left at the end of the input is not pushed
parse_quotes_no_final_flush(s) ==
    pq_scan(s, 1, Len(s), pq_init).args

parse_quotes(s) ==
    pq_flush(pq_scan(s, 1, Len(s), pq_init))

(***************************************************************************)
(* std::path on the build's platform: `windows` tells whether the backslash *)
(* is a separator too and which separator push() inserts.                  *)
(***************************************************************************)
Separators(w) ==
    IF w THEN {"/", BACKSLASH} ELSE {"/"}

MAIN_SEPARATOR(w) ==
    IF w THEN BACKSLASH ELSE "/"

\* the components iterator ignores trailing separators and trailing `.` components
RECURSIVE path_trim(_, _)
path_trim(w, p) ==
    IF p = <<>>
    THEN p
    ELSE IF p[Len(p)] \in Separators(w)
         THEN path_trim(w, SubSeq(p, 1, Len(p) - 1))
         ELSE IF Len(p) >= 2 /\ p[Len(p)] = "." /\ p[Len(p) - 1] \in Separators(w)
              THEN path_trim(w, SubSeq(p, 1, Len(p) - 2))
              ELSE p

\* Path::file_name().unwrap_or("") : the last component when it is a normal one
file_name(w, p) ==
    LET t == path_trim(w, p)
        k == rfind(t, Separators(w))
        last == SubSeq(t, k + 1, Len(t))
    IN  IF last \in {<<>>, <<".">>, <<".", ".">>} THEN <<>> ELSE last

\* Path::with_file_name: drop the last component, then push the new name
with_file_name(w, p, name) ==
    LET t == path_trim(w, p)
        k == rfind(t, Separators(w))
        parent == IF file_name(w, p) = <<>> THEN p
                  ELSE IF k <= 1 THEN SubSeq(t, 1, k)
                  ELSE path_trim(w, SubSeq(t, 1, k - 1))
    IN  IF parent = <<>> \/ parent[Len(parent)] \in Separators(w)
        THEN parent \o name
        ELSE parent \o <<MAIN_SEPARATOR(w)>> \o name

(***************************************************************************)
(* The classification of one token (main, the body of the while loop).     *)
(***************************************************************************)
is_flag(arg) ==
    starts_with(arg, <<"/">>) \/ starts_with(arg, <<"-">>)

option_name(arg) ==
    LET arg_end_idx == find(arg, ":")
    IN  SubSeq(arg, 2, IF arg_end_idx = 0 THEN Len(arg) ELSE arg_end_idx - 1)

option_arg(arg) ==
    LET arg_end_idx == find(arg, ":")
    IN  IF arg_end_idx = 0 THEN <<>> ELSE SubSeq(arg, arg_end_idx + 1, Len(arg))

\* format!("/{}:\"{}\"", name, value)
fmt_flag(name, value) ==
    <<"/">> \o name \o <<":", QUOTE>> \o value \o <<QUOTE>>

\* mutant of fmt_quoted: the token is written without the surrounding quotes
fmt_quoted_bare(arg) ==
    arg

\* format!("\"{}\"", arg)
fmt_quoted(arg) ==
    <<QUOTE>> \o arg \o <<QUOTE>>

\* mutant of is_lib_member: archives (*.rlib) are not treated as members
is_lib_member_only_o(arg) ==
    ends_with(arg, s_dot_o)

is_lib_member(arg) ==
    ends_with(arg, s_dot_o) \/ ends_with(arg, s_dot_rlib)

\* mutant of writes_of: a flag with an unlisted option name is passed to the linker file
writes_of_passthrough(arg, def_file_path) ==
    IF is_flag(arg)
    THEN IF option_name(arg) \in {s_LIBPATH, s_IMPLIB}
         THEN << <<"linker", fmt_flag(option_name(arg), option_arg(arg))>> >>
         ELSE IF option_name(arg) = s_DEF
              THEN << <<"linker", fmt_flag(s_DEF, def_file_path)>>,
                      <<"lib", fmt_flag(s_DEF, def_file_path)>> >>
              ELSE IF option_name(arg) = s_flavor THEN <<>>
                   ELSE << <<"linker", arg>> >>
    ELSE IF ~ends_with(arg, s_dot_exe)
         THEN IF is_lib_member(arg)
              THEN << <<"lib", fmt_quoted(arg)>> >>
              ELSE << <<"linker", fmt_quoted(arg)>> >>
         ELSE <<>>

\* the writeln! calls of one iteration, in program order: <<file, line>>
writes_of(arg, def_file_path) ==
    IF is_flag(arg)
    THEN IF option_name(arg) \in {s_LIBPATH, s_IMPLIB}
         THEN << <<"linker", fmt_flag(option_name(arg), option_arg(arg))>> >>
         ELSE IF option_name(arg) = s_DEF
              THEN << <<"linker", fmt_flag(s_DEF, def_file_path)>>,
                      <<"lib", fmt_flag(s_DEF, def_file_path)>> >>
              ELSE <<>>
    ELSE IF ~ends_with(arg, s_dot_exe)
         THEN IF is_lib_member(arg)
              THEN << <<"lib", fmt_quoted(arg)>> >>
              ELSE << <<"linker", fmt_quoted(arg)>> >>
         ELSE <<>>

\* mutant of next_idx: a flavor flag does not skip the token that follows it
next_idx_no_skip(arg, idx0) ==
    idx0 + 1

\* idx after an iteration that began at idx
next_idx(arg, idx0) ==
    IF is_flag(arg) /\ option_name(arg) = s_flavor THEN idx0 + 2 ELSE idx0 + 1

\* mutant of LinkerFlavors: the compiler driver is accepted as a front end
LinkerFlavors_with_cl ==
    {s_link_exe, s_lld_link_exe, s_rust_lld_exe, <<"c", "l", ".", "e", "x", "e">>}

\* the front ends the match on the first token's file name accepts
LinkerFlavors ==
    {s_link_exe, s_lld_link_exe, s_rust_lld_exe}

is_recognized_flavor(w, linker_flavor) ==
    file_name(w, linker_flavor) \in LinkerFlavors

(***************************************************************************)
(* Inputs: words and whole lines the cargo stdout is drawn from, and paths. *)
(***************************************************************************)
\* link.exe
w_link ==
    <<"l", "i", "n", "k", ".", "e", "x", "e">>
\* cl.exe
w_cl ==
    <<"c", "l", ".", "e", "x", "e">>
\* b/lld-link.exe
w_dir_lld ==
    <<"b", "/", "l", "l", "d", "-", "l", "i", "n", "k", ".", "e", "x", "e">>
\* b\rust-lld.exe
w_win_rust_lld ==
    <<"b", "\\", "r", "u", "s", "t", "-", "l", "l", "d", ".", "e", "x", "e">>
\* foo.o
w_foo_o ==
    <<"f", "o", "o", ".", "o">>
\* bar.rlib
w_bar_rlib ==
    <<"b", "a", "r", ".", "r", "l", "i", "b">>
\* m.def
w_m_def ==
    <<"m", ".", "d", "e", "f">>
\* /LIBPATH:b
w_libpath ==
    <<"/", "L", "I", "B", "P", "A", "T", "H", ":", "b">>
\* /IMPLIB:t.exe
w_implib_exe ==
    <<"/", "I", "M", "P", "L", "I", "B", ":", "t", ".", "e", "x", "e">>
\* /DEF:s.def
w_def ==
    <<"/", "D", "E", "F", ":", "s", ".", "d", "e", "f">>
\* -flavor
w_flavor ==
    <<"-", "f", "l", "a", "v", "o", "r">>
\* s.def
p_s_def ==
    <<"s", ".", "d", "e", "f">>
\* x.exe
p_x_exe ==
    <<"x", ".", "e", "x", "e">>
\* lib.rsp
p_lib_rsp ==
    <<"l", "i", "b", ".", "r", "s", "p">>
\* out/lib.rsp
p_out_lib_rsp ==
    <<"o", "u", "t", "/", "l", "i", "b", ".", "r", "s", "p">>
\* link.exe /LIBPATH:"C:\lib" foo.o /DEF:"C:\x\y.def" bar.rlib baz.dll cl.exe
line_e2e ==
    <<"l", "i", "n", "k", ".", "e", "x", "e", " ", "/", "L", "I", "B", "P", "A", "T", "H", ":", "\"", "C", ":", "\\", "l", "i", "b", "\"", " ", "f", "o", "o", ".", "o", " ", "/", "D", "E", "F", ":", "\"", "C", ":", "\\", "x", "\\", "y", ".", "d", "e", "f", "\"", " ", "b", "a", "r", ".", "r", "l", "i", "b", " ", "b", "a", "z", ".", "d", "l", "l", " ", "c", "l", ".", "e", "x", "e">>
\* link.exe "/LIBPATH:C:\\lib" foo.o "/DEF:C:\\x\\y.def" bar.rlib baz.dll cl.exe
line_e2e_whole ==
    <<"l", "i", "n", "k", ".", "e", "x", "e", " ", "\"", "/", "L", "I", "B", "P", "A", "T", "H", ":", "C", ":", "\\", "\\", "l", "i", "b", "\"", " ", "f", "o", "o", ".", "o", " ", "\"", "/", "D", "E", "F", ":", "C", ":", "\\", "\\", "x", "\\", "\\", "y", ".", "d", "e", "f", "\"", " ", "b", "a", "r", ".", "r", "l", "i", "b", " ", "b", "a", "z", ".", "d", "l", "l", " ", "c", "l", ".", "e", "x", "e">>
\* C:\x\y.def
p_y_def ==
    <<"C", ":", "\\", "x", "\\", "y", ".", "d", "e", "f">>
\* warning: unused
line_noise ==
    <<"w", "a", "r", "n", "i", "n", "g", ":", " ", "u", "n", "u", "s", "e", "d">>
\* link.exe m.def /LIBPATH:"b c"
line_raw_libpath ==
    <<"l", "i", "n", "k", ".", "e", "x", "e", " ", "m", ".", "d", "e", "f", " ", "/", "L", "I", "B", "P", "A", "T", "H", ":", "\"", "b", " ", "c", "\"">>
\* link.exe m.def /IMPLIB:"y.lib"
line_raw_implib ==
    <<"l", "i", "n", "k", ".", "e", "x", "e", " ", "m", ".", "d", "e", "f", " ", "/", "I", "M", "P", "L", "I", "B", ":", "\"", "y", ".", "l", "i", "b", "\"">>
\* link.exe m.def /OUT:"a.dll"
line_raw_out ==
    <<"l", "i", "n", "k", ".", "e", "x", "e", " ", "m", ".", "d", "e", "f", " ", "/", "O", "U", "T", ":", "\"", "a", ".", "d", "l", "l", "\"">>
\* lld-link.exe baz.lib m.def foo.o baz.dll foo.o baz.lib
line_routing ==
    <<"l", "l", "d", "-", "l", "i", "n", "k", ".", "e", "x", "e", " ", "b", "a", "z", ".", "l", "i", "b", " ", "m", ".", "d", "e", "f", " ", "f", "o", "o", ".", "o", " ", "b", "a", "z", ".", "d", "l", "l", " ", "f", "o", "o", ".", "o", " ", "b", "a", "z", ".", "l", "i", "b">>
\* /DEF:/link.exe m.def
line_flag_front ==
    <<"/", "D", "E", "F", ":", "/", "l", "i", "n", "k", ".", "e", "x", "e", " ", "m", ".", "d", "e", "f">>
\* /flavor:/link.exe m.def foo.o
line_flavor_front ==
    <<"/", "f", "l", "a", "v", "o", "r", ":", "/", "l", "i", "n", "k", ".", "e", "x", "e", " ", "m", ".", "d", "e", "f", " ", "f", "o", "o", ".", "o">>
\* "" ".def"
line_quoted_only ==
    <<"\"", "\"", " ", "\"", ".", "d", "e", "f", "\"">>
\* cl.exe /DEF:s.def foo.o
line_cl_def ==
    <<"c", "l", ".", "e", "x", "e", " ", "/", "D", "E", "F", ":", "s", ".", "d", "e", "f", " ", "f", "o", "o", ".", "o">>


\* link.exe /DEF:x.exe /IMPLIB:t.exe m.def t.exe /OUT:a.dll
line_exe_flags ==
    <<"l", "i", "n", "k", ".", "e", "x", "e", " ", "/", "D", "E", "F", ":", "x", ".", "e", "x", "e", " ", "/", "I", "M", "P", "L", "I", "B", ":", "t", ".", "e", "x", "e", " ", "m", ".", "d", "e", "f", " ", "t", ".", "e", "x", "e", " ", "/", "O", "U", "T", ":", "a", ".", "d", "l", "l">>

\* link.exe m.def "/LIBPATH:b c"
line_whole_libpath ==
    <<"l", "i", "n", "k", ".", "e", "x", "e", " ", "m", ".", "d", "e", "f", " ", "\"", "/", "L", "I", "B", "P", "A", "T", "H", ":", "b", " ", "c", "\"">>

\* link.exe m.def /IMPLIB:"foo.o"
line_raw_obj ==
    <<"l", "i", "n", "k", ".", "e", "x", "e", " ", "m", ".", "d", "e", "f", " ", "/", "I", "M", "P", "L", "I", "B", ":", "\"", "f", "o", "o", ".", "o", "\"">>

\* link.exe -flavor /DEF:s.def foo.o -flavor
line_flavor_skip ==
    <<"l", "i", "n", "k", ".", "e", "x", "e", " ", "-", "f", "l", "a", "v", "o", "r", " ", "/", "D", "E", "F", ":", "s", ".", "d", "e", "f", " ", "f", "o", "o", ".", "o", " ", "-", "f", "l", "a", "v", "o", "r">>

line_stale ==
    <<"s", "t", "a", "l", "e">>

\* bound on the number of words that follow the first word of a generated line
MaxArgs == 2

FrontEnds ==
    {w_link, w_cl, w_dir_lld, w_win_rust_lld}

Words ==
    {w_foo_o, w_bar_rlib, w_m_def, w_libpath, w_implib_exe, w_def, w_flavor}

RECURSIVE join_words(_, _)
join_words(head, ws) ==
    IF ws = <<>> THEN head
    ELSE join_words(head \o <<SPACE>> \o ws[1], SubSeq(ws, 2, Len(ws)))

GeneratedLines ==
    {join_words(f, ws) : f \in FrontEnds,
                         ws \in UNION {[1..k -> Words] : k \in 0..MaxArgs}}

ScenarioLines ==
    {line_e2e, line_e2e_whole, line_raw_libpath, line_raw_implib, line_raw_out,
     line_routing, line_flag_front, line_flavor_front, line_quoted_only,
     line_cl_def, line_exe_flags, line_whole_libpath,
     line_raw_obj, line_flavor_skip}

Lines ==
    GeneratedLines \cup ScenarioLines

\* the captured stdout, as the sequence str::lines() yields
Stdouts ==
    {<<>>} \cup {<<l>> : l \in Lines} \cup {<<l, line_noise>> : l \in ScenarioLines}
           \cup {<<line_noise, l>> : l \in ScenarioLines}

\* Command::output(): Err, or Ok(Output) with the child's exit status and stdout
CompileResults ==
    {[ok |-> FALSE, success |-> FALSE, stdout |-> <<>>]}
    \cup {[ok |-> TRUE, success |-> b, stdout |-> so] : b \in BOOLEAN, so \in Stdouts}

\* paths that may exist on disk as module-definition sources
Sources ==
    {p_s_def, p_x_exe, p_y_def}

NoFile ==
    [exists |-> FALSE, lines |-> <<>>]

EmptyFile ==
    [exists |-> TRUE, lines |-> <<>>]

StaleFile ==
    [exists |-> TRUE, lines |-> <<line_stale>>]

\* what a failed fs::copy may leave at the destination
PartialFile ==
    [exists |-> TRUE, lines |-> <<>>]

\* process exit statuses
EXIT_SUCCESS == 0
EXIT_FAILURE == 1
PANIC_EXIT == 101

(***************************************************************************)
(* State of one run of the rustc subcommand.                               *)
(***************************************************************************)
VARIABLES
    compile_result,        \* input: what Command::output() returned
    windows,               \* input: the platform std::path is built for
    output_lib_link_file,  \* input: --output_lib_link_file
    fs,                    \* the files: linker, lib, def (build_def.def), sources
    fs0,                   \* history: the files when the process started
    pc,                    \* position in main: start, create, validate, loop, exited
    args,                  \* parse_quotes(last_line)
    idx,                   \* loop index (0-based, as in the source)
    exit_code,             \* the process's exit status, -1 while running
    diag,                  \* diagnostics printed so far
    classified             \* history: the indices at which an iteration began

vars ==
    <<compile_result, windows, output_lib_link_file, fs, fs0, pc, args, idx,
      exit_code, diag, classified>>

inputs ==
    <<compile_result, windows, output_lib_link_file, fs0>>

last_line ==
    compile_result.stdout[Len(compile_result.stdout)]

def_file_path ==
    with_file_name(windows, output_lib_link_file, s_build_def_def)

Init ==
    /\ compile_result \in CompileResults
    /\ windows \in BOOLEAN
    /\ output_lib_link_file \in {p_lib_rsp, p_out_lib_rsp}
    /\ fs \in {[linker |-> f, lib |-> f, def |-> f, sources |-> s] :
                   f \in {NoFile, StaleFile}, s \in {{}, Sources}}
    /\ fs0 = fs
    /\ pc = "start"
    /\ args = <<>>
    /\ idx = 0
    /\ exit_code = -1
    /\ diag = {}
    /\ classified = <<>>

\* the process ends with status code after printing message
Exit(code, message) ==
    /\ pc' = "exited"
    /\ exit_code' = code
    /\ diag' = IF message = "" THEN diag ELSE diag \cup {message}

\* Err(err) arm: cargo could not be run
CargoNotRun ==
    /\ pc = "start"
    /\ ~compile_result.ok
    /\ Exit(EXIT_FAILURE, "Compile error")
    /\ UNCHANGED <<inputs, fs, args, idx, classified>>

\* stdout has no line at all: success stays false
EmptyStdout ==
    /\ pc = "start"
    /\ compile_result.ok
    /\ compile_result.stdout = <<>>
    /\ Exit(EXIT_FAILURE, "")
    /\ UNCHANGED <<inputs, fs, args, idx, classified>>

\* the last line does not contain ".def": success stays false
NoLinkerArgs ==
    /\ pc = "start"
    /\ compile_result.ok
    /\ compile_result.stdout # <<>>
    /\ ~contains(last_line, s_dot_def)
    /\ Exit(EXIT_FAILURE, "NO LINKER ARGS")
    /\ UNCHANGED <<inputs, fs, args, idx, classified>>

\* the last line contains ".def": success = true
DefGate ==
    /\ pc = "start"
    /\ compile_result.ok
    /\ compile_result.stdout # <<>>
    /\ contains(last_line, s_dot_def)
    /\ pc' = "create"
    /\ UNCHANGED <<inputs, fs, args, idx, exit_code, diag, classified>>

\* mutant of CreateOutputFiles: the files are opened without truncation
CreateOutputFiles_keeps_contents ==
    /\ pc = "create"
    /\ fs' = [fs EXCEPT !.linker = [exists |-> TRUE, lines |-> fs.linker.lines],
                        !.lib = [exists |-> TRUE, lines |-> fs.lib.lines]]
    /\ args' = parse_quotes(last_line)
    /\ pc' = "validate"
    /\ UNCHANGED <<inputs, idx, exit_code, diag, classified>>

\* both File::create calls succeed, then the line is tokenized
CreateOutputFiles ==
    /\ pc = "create"
    /\ fs' = [fs EXCEPT !.linker = EmptyFile, !.lib = EmptyFile]
    /\ args' = parse_quotes(last_line)
    /\ pc' = "validate"
    /\ UNCHANGED <<inputs, idx, exit_code, diag, classified>>

\* one of the File::create calls fails and `?` returns the error from main
CreateFails ==
    /\ pc = "create"
    /\ \E failing \in {"linker", "lib"} :
           fs' = IF failing = "lib" THEN [fs EXCEPT !.linker = EmptyFile] ELSE fs
    /\ Exit(EXIT_FAILURE, "Error")
    /\ UNCHANGED <<inputs, args, idx, classified>>

\* the first token names a recognized front end
ValidateFlavor ==
    /\ pc = "validate"
    /\ args # <<>>
    /\ is_recognized_flavor(windows, args[1])
    /\ pc' = "loop"
    /\ idx' = 0
    /\ UNCHANGED <<inputs, fs, args, exit_code, diag, classified>>

\* mutant of FlavorPanic: the process exits with status 1 instead of panicking
FlavorPanic_exit_failure ==
    /\ pc = "validate"
    /\ args = <<>> \/ ~is_recognized_flavor(windows, args[1])
    /\ Exit(EXIT_FAILURE, IF args = <<>> THEN "No linker args found!"
                          ELSE "Unrecognized linker flavor")
    /\ UNCHANGED <<inputs, fs, args, idx, classified>>

\* panic!: no token at all, or an unrecognized front end
FlavorPanic ==
    /\ pc = "validate"
    /\ args = <<>> \/ ~is_recognized_flavor(windows, args[1])
    /\ Exit(PANIC_EXIT, IF args = <<>> THEN "No linker args found!"
                        ELSE "Unrecognized linker flavor")
    /\ UNCHANGED <<inputs, fs, args, idx, classified>>

\* mutant of append_line: a line the file already holds is not written again
append_line_dedupe(files, which, line) ==
    IF which = "linker"
    THEN IF \E i \in 1..Len(files.linker.lines) : files.linker.lines[i] = line
         THEN files
         ELSE [files EXCEPT !.linker.lines = Append(@, line)]
    ELSE IF \E i \in 1..Len(files.lib.lines) : files.lib.lines[i] = line
         THEN files
         ELSE [files EXCEPT !.lib.lines = Append(@, line)]

\* the file `which` after writeln! of `line`
append_line(files, which, line) ==
    IF which = "linker"
    THEN [files EXCEPT !.linker.lines = Append(@, line)]
    ELSE [files EXCEPT !.lib.lines = Append(@, line)]

RECURSIVE apply_writes(_, _, _)
apply_writes(files, ws, n) ==
    IF n = 0 THEN files
    ELSE append_line(apply_writes(files, ws, n - 1), ws[n][1], ws[n][2])

\* mutant of copies_def: the copy is attempted without looking at fs::metadata
copies_def_unchecked(arg, files) ==
    /\ is_flag(arg)
    /\ option_name(arg) = s_DEF

\* the DEF arm copies when fs::metadata(option_arg) is Ok
copies_def(arg, files) ==
    /\ is_flag(arg)
    /\ option_name(arg) = s_DEF
    /\ option_arg(arg) \in files.sources

after_copy(arg, files) ==
    IF copies_def(arg, files)
    THEN [files EXCEPT !.def = [exists |-> TRUE, lines |-> <<option_arg(arg)>>]]
    ELSE files

\* one iteration of the while loop in which every I/O call succeeds
Classify ==
    /\ pc = "loop"
    /\ idx < Len(args)
    /\ LET arg == args[idx + 1]
           ws == writes_of(arg, def_file_path)
       IN  /\ fs' = apply_writes(after_copy(arg, fs), ws, Len(ws))
           /\ idx' = next_idx(arg, idx)
    /\ classified' = Append(classified, idx)
    /\ UNCHANGED <<inputs, pc, args, exit_code, diag>>

\* mutant of DefCopyFails: the failed copy is reported and the iteration goes on
DefCopyFails_swallowed ==
    /\ pc = "loop"
    /\ idx < Len(args)
    /\ copies_def(args[idx + 1], fs)
    /\ LET ws == writes_of(args[idx + 1], def_file_path)
       IN  fs' = apply_writes([fs EXCEPT !.def = PartialFile], ws, Len(ws))
    /\ idx' = idx + 1
    /\ classified' = Append(classified, idx)
    /\ diag' = diag \cup {"Failed to copy def file"}
    /\ UNCHANGED <<inputs, pc, args, exit_code>>

\* fs::copy fails: expect() panics before anything is written
DefCopyFails ==
    /\ pc = "loop"
    /\ idx < Len(args)
    /\ copies_def(args[idx + 1], fs)
    /\ \E d \in {fs.def, PartialFile} : fs' = [fs EXCEPT !.def = d]
    /\ idx' = idx + 1
    /\ classified' = Append(classified, idx)
    /\ Exit(PANIC_EXIT, "Failed to copy def file")
    /\ UNCHANGED <<inputs, args>>

\* the n-th writeln! of the iteration fails and `?` returns the error from main
WriteFails ==
    /\ pc = "loop"
    /\ idx < Len(args)
    /\ LET arg == args[idx + 1]
           ws == writes_of(arg, def_file_path)
       IN  /\ \E n \in 1..Len(ws) : fs' = apply_writes(after_copy(arg, fs), ws, n - 1)
           /\ idx' = idx + 1
    /\ classified' = Append(classified, idx)
    /\ Exit(EXIT_FAILURE, "Error")
    /\ UNCHANGED <<inputs, args>>

\* mutant of Done: the loop ends only when idx is exactly the number of tokens
Done_at_exact_end ==
    /\ pc = "loop"
    /\ idx = Len(args)
    /\ Exit(EXIT_SUCCESS, "")
    /\ UNCHANGED <<inputs, fs, args, idx, classified>>

\* the loop is over: command_success is true and main returns Ok(())
Done ==
    /\ pc = "loop"
    /\ idx >= Len(args)
    /\ Exit(EXIT_SUCCESS, "")
    /\ UNCHANGED <<inputs, fs, args, idx, classified>>

Next ==
    \/ CargoNotRun
    \/ EmptyStdout
    \/ NoLinkerArgs
    \/ DefGate
    \/ CreateOutputFiles
    \/ CreateFails
    \/ ValidateFlavor
    \/ FlavorPanic
    \/ Classify
    \/ DefCopyFails
    \/ WriteFails
    \/ Done

Spec ==
    Init /\ [][Next]_vars

(***************************************************************************)
(* Vocabulary of the properties: expected output lines, written out.       *)
(***************************************************************************)
\* /LIBPATH:"C:\lib"
out_libpath_c_lib ==
    <<"/", "L", "I", "B", "P", "A", "T", "H", ":", "\"", "C", ":", "\\", "l", "i", "b", "\"">>
\* /LIBPATH:""
out_libpath_empty ==
    <<"/", "L", "I", "B", "P", "A", "T", "H", ":", "\"", "\"">>
\* /IMPLIB:""
out_implib_empty ==
    <<"/", "I", "M", "P", "L", "I", "B", ":", "\"", "\"">>
\* /LIBPATH:"b c"
out_libpath_b_c ==
    <<"/", "L", "I", "B", "P", "A", "T", "H", ":", "\"", "b", " ", "c", "\"">>
\* /IMPLIB:"y.lib"
out_implib_y_lib ==
    <<"/", "I", "M", "P", "L", "I", "B", ":", "\"", "y", ".", "l", "i", "b", "\"">>
\* /IMPLIB:"t.exe"
out_implib_t_exe ==
    <<"/", "I", "M", "P", "L", "I", "B", ":", "\"", "t", ".", "e", "x", "e", "\"">>
\* "baz.dll"
out_baz_dll ==
    <<"\"", "b", "a", "z", ".", "d", "l", "l", "\"">>
\* "baz.lib"
out_baz_lib ==
    <<"\"", "b", "a", "z", ".", "l", "i", "b", "\"">>
\* "foo.o"
out_foo_o ==
    <<"\"", "f", "o", "o", ".", "o", "\"">>
\* "bar.rlib"
out_bar_rlib ==
    <<"\"", "b", "a", "r", ".", "r", "l", "i", "b", "\"">>
\* "m.def"
out_m_def ==
    <<"\"", "m", ".", "d", "e", "f", "\"">>
\* "C:lib"
out_c_lib ==
    <<"\"", "C", ":", "l", "i", "b", "\"">>
\* "C:xy.def"
out_c_xy_def ==
    <<"\"", "C", ":", "x", "y", ".", "d", "e", "f", "\"">>
\* "b c"
out_b_c ==
    <<"\"", "b", " ", "c", "\"">>
\* "y.lib"
out_y_lib ==
    <<"\"", "y", ".", "l", "i", "b", "\"">>
\* "a.dll"
out_a_dll ==
    <<"\"", "a", ".", "d", "l", "l", "\"">>
\* /DEF:"
def_line_head ==
    <<"/", "D", "E", "F", ":", "\"">>
\* out
dir_out ==
    <<"o", "u", "t">>

\* <archiver-output-dir>/build_def.def, by the value of --output_lib_link_file
ExpectedDefPath ==
    IF output_lib_link_file = p_lib_rsp
    THEN s_build_def_def
    ELSE dir_out \o <<IF windows THEN BACKSLASH ELSE "/">> \o s_build_def_def

\* the line /DEF:"<canonical>"
ExpectedDefLine ==
    def_line_head \o ExpectedDefPath \o <<QUOTE>>

\* the front ends the specification lists
FrontEndWhitelist ==
    {s_link_exe, s_lld_link_exe, s_rust_lld_exe}

\* an I/O call failed during the run
IoFailed ==
    diag \cap {"Error", "Failed to copy def file"} # {}

\* cargo ran and printed at least one line
HasLastLine ==
    compile_result.ok /\ compile_result.stdout # <<>>

\* the run is over and no I/O call failed
Finished ==
    pc = "exited" /\ HasLastLine /\ ~IoFailed

C2_NoOpExitsZero ==
    (pc = "exited" /\ HasLastLine /\ ~contains(last_line, s_dot_def)) =>
        /\ fs = fs0
        /\ exit_code = EXIT_SUCCESS

(***************************************************************************)
(* C3 (as stated): when the line passes the ".def" gate and the file name  *)
(* of the first token is not a listed front end, the process prints a      *)
(* diagnostic and ends with exit code exactly 1.                            *)
(***************************************************************************)
C3_UnrecognizedExitsOne ==
    (pc = "exited" /\ args # <<>>
        /\ file_name(windows, args[1]) \notin FrontEndWhitelist) =>
        /\ "Unrecognized linker flavor" \in diag
        /\ exit_code = EXIT_FAILURE

(***************************************************************************)
(* C3 (amended): in that case the process prints the diagnostic and ends   *)
(* by a panic, with the nonzero exit code 101 (not 1).                      *)
(***************************************************************************)
C3_UnrecognizedPanics ==
    (pc = "exited" /\ args # <<>>
        /\ file_name(windows, args[1]) \notin FrontEndWhitelist) =>
        /\ "Unrecognized linker flavor" \in diag
        /\ exit_code = PANIC_EXIT
        /\ exit_code # EXIT_SUCCESS

\* the run ended on a gated line whose first token is cl.exe
C3_Witness ==
    /\ pc = "exited"
    /\ args # <<>>
    /\ args[1] = w_cl
    /\ contains(last_line, s_dot_def)
    /\ "Unrecognized linker flavor" \in diag

(***************************************************************************)
(* C4 (as stated): whenever the cargo step fails (it could not be run, or  *)
(* it ran and completed with errors), the run exits with a nonzero status, *)
(* whatever the captured stdout holds.                                      *)
(***************************************************************************)
C4_CargoFailureExitsNonzero ==
    (pc = "exited" /\ (~compile_result.ok \/ ~compile_result.success)) =>
        exit_code # EXIT_SUCCESS

(***************************************************************************)
(* C5: once a gated line is tokenized, classification proceeds if and only *)
(* if the file name of the first token is link.exe, lld-link.exe or        *)
(* rust-lld.exe; otherwise the run aborts with a nonzero status before any *)
(* iteration of the loop: no line in either output file and no             *)
(* module-definition copy.                                                  *)
(***************************************************************************)
C5_WhitelistEnforced ==
    (args # <<>> /\ pc \in {"loop", "exited"}) =>
        IF file_name(windows, args[1]) \in FrontEndWhitelist
        THEN "Unrecognized linker flavor" \notin diag
        ELSE /\ pc = "exited"
             /\ exit_code # EXIT_SUCCESS
             /\ "Unrecognized linker flavor" \in diag
             /\ classified = <<>>
             /\ fs.linker.lines = <<>>
             /\ fs.lib.lines = <<>>
             /\ fs.def = fs0.def

\* cl.exe as the front end of a line that names a DEF file: aborted, files empty
C5_Witness ==
    /\ pc = "exited"
    /\ HasLastLine
    /\ last_line = line_cl_def
    /\ exit_code # EXIT_SUCCESS
    /\ fs.linker = EmptyFile
    /\ fs.lib = EmptyFile

(***************************************************************************)
(* Shapes of a token, in the words of the specification.                   *)
(***************************************************************************)
FlagShaped(t) ==
    t # <<>> /\ t[1] \in {"/", "-"}

Positional(t) ==
    ~FlagShaped(t)

EndsWithExe(t) ==
    ends_with(t, <<".", "e", "x", "e">>)

ArchiveMember(t) ==
    ends_with(t, <<".", "o">>) \/ ends_with(t, <<".", "r", "l", "i", "b">>)

Quoted(t) ==
    <<QUOTE>> \o t \o <<QUOTE>>

\* an iteration of the loop on the token `tok` is running to its end
ClassifiedStep(tok) ==
    /\ pc = "loop"
    /\ idx < Len(args)
    /\ args[idx + 1] = tok
    /\ pc' = "loop"

\* the token of the last iteration begun
LastClassified ==
    args[classified[Len(classified)] + 1]

C7_ExeAlwaysDiscarded ==
    [][(pc = "loop" /\ 1 <= idx /\ idx < Len(args) /\ EndsWithExe(args[idx + 1])) =>
           /\ fs'.linker = fs.linker
           /\ fs'.lib = fs.lib
           /\ fs'.def = fs.def]_vars

(***************************************************************************)
(* C8: an iteration on a positional token that does not end with ".exe"    *)
(* appends exactly the line "<token>" to exactly one file: the archiver    *)
(* file when the token ends with .o or .rlib, the linker file otherwise;   *)
(* the other file is left as it is, and the quoted token never shows up in *)
(* the other file.                                                          *)
(***************************************************************************)
C8_ExtensionRouting ==
    /\ [][\A i \in 1..Len(args) :
            (ClassifiedStep(args[i]) /\ idx + 1 = i
                /\ Positional(args[i]) /\ ~EndsWithExe(args[i])) =>
               IF ArchiveMember(args[i])
               THEN /\ fs'.lib.lines = Append(fs.lib.lines, Quoted(args[i]))
                    /\ fs'.linker = fs.linker
               ELSE /\ fs'.linker.lines = Append(fs.linker.lines, Quoted(args[i]))
                    /\ fs'.lib = fs.lib]_vars
    /\ [](\A i \in 1..Len(args) :
            (Positional(args[i]) /\ ~EndsWithExe(args[i])) =>
               IF ArchiveMember(args[i])
               THEN \A j \in 1..Len(fs.linker.lines) :
                        fs.linker.lines[j] # Quoted(args[i])
               ELSE \A j \in 1..Len(fs.lib.lines) :
                        fs.lib.lines[j] # Quoted(args[i]))

\* bar.rlib has just been classified: its line is the last of the archiver file
C8_Witness ==
    /\ pc = "loop"
    /\ classified # <<>>
    /\ LastClassified = w_bar_rlib
    /\ fs.lib.lines # <<>>
    /\ fs.lib.lines[Len(fs.lib.lines)] = out_bar_rlib
    /\ \A j \in 1..Len(fs.linker.lines) : fs.linker.lines[j] # out_bar_rlib

(***************************************************************************)
(* C9: an iteration on a flag token whose option name is DEF, when no I/O  *)
(* call fails, copies the option value to <archiver-output-dir>/           *)
(* build_def.def if and only if that source exists, and in both cases      *)
(* appends the one line /DEF:"<archiver-output-dir>/build_def.def" to the  *)
(* linker file and the same line to the archiver file; the path written    *)
(* does not depend on the option value.                                     *)
(***************************************************************************)
C9_DefRelocation ==
    [][\A i \in 1..Len(args) :
          (ClassifiedStep(args[i]) /\ idx + 1 = i
              /\ FlagShaped(args[i]) /\ option_name(args[i]) = s_DEF) =>
             /\ fs'.def = IF option_arg(args[i]) \in fs.sources
                         THEN [exists |-> TRUE, lines |-> <<option_arg(args[i])>>]
                         ELSE fs.def
             /\ fs'.linker.lines = Append(fs.linker.lines, ExpectedDefLine)
             /\ fs'.lib.lines = Append(fs.lib.lines, ExpectedDefLine)]_vars

\* /DEF:s.def has just been classified with s.def on disk: copied, both lines written
C9_Witness ==
    /\ pc = "loop"
    /\ classified # <<>>
    /\ LastClassified = w_def
    /\ p_s_def \in fs.sources
    /\ fs.def = [exists |-> TRUE, lines |-> <<p_s_def>>]
    /\ fs.linker.lines # <<>>
    /\ fs.linker.lines[Len(fs.linker.lines)] = ExpectedDefLine
    /\ fs.lib.lines # <<>>
    /\ fs.lib.lines[Len(fs.lib.lines)] = ExpectedDefLine

(***************************************************************************)
(* C10: at every point of the pass (no I/O call having failed) each file   *)
(* holds, in the order of the tokens, the lines of the tokens classified   *)
(* so far, one line per occurrence of a token: nothing is reordered and    *)
(* nothing is deduplicated; the tokens are classified in increasing order  *)
(* of their position.                                                       *)
(***************************************************************************)
LinesOf(which, tok) ==
    LET ws == SelectSeq(writes_of(tok, def_file_path), LAMBDA w : w[1] = which)
    IN  [k \in 1..Len(ws) |-> ws[k][2]]

RECURSIVE LinesInTokenOrder(_, _)
LinesInTokenOrder(which, n) ==
    IF n = 0 THEN <<>>
    ELSE LinesInTokenOrder(which, n - 1) \o LinesOf(which, args[classified[n] + 1])

C10_OrderPreserved ==
    (args # <<>> /\ ~IoFailed) =>
        /\ \A m, n \in 1..Len(classified) : m < n => classified[m] < classified[n]
        /\ \A n \in 1..Len(classified) : classified[n] < Len(args)
        /\ fs.linker.lines = LinesInTokenOrder("linker", Len(classified))
        /\ fs.lib.lines = LinesInTokenOrder("lib", Len(classified))

\* foo.o occurs twice and baz.lib twice: two lines each, in the order of the line
C10_Witness ==
    /\ Finished
    /\ last_line = line_routing
    /\ fs.lib.lines = <<out_foo_o, out_foo_o>>
    /\ fs.linker.lines = <<out_baz_lib, out_m_def, out_baz_dll, out_baz_lib>>

(***************************************************************************)
(* The tokenizer on its own: parse_quotes applied to one input string.     *)
(* The strings are the concatenations of at most MaxPieces pieces, the     *)
(* joins of at most MaxTokens tokens, and a few strings written out.       *)
(***************************************************************************)
MaxPieces == 5

MaxTokens == 3

tok_a ==
    <<"a">>

tok_a_def ==
    <<"a", ".", "d", "e", "f">>

tok_a_space_a ==
    <<"a", " ", "a">>

TokPieces ==
    {tok_a, <<SPACE>>, <<QUOTE>>, <<BACKSLASH>>, s_dot_def}

RECURSIVE concat_pieces(_)
concat_pieces(ps) ==
    IF ps = <<>> THEN <<>> ELSE ps[1] \o concat_pieces(SubSeq(ps, 2, Len(ps)))

\* tokens joined with single spaces
JoinSpaces(ts) ==
    IF ts = <<>> THEN <<>> ELSE join_words(ts[1], SubSeq(ts, 2, Len(ts)))

\* non-empty tokens without a double quote or a backslash; one holds a space
PlainTokens ==
    {tok_a, s_dot_def, tok_a_def, tok_a_space_a}

PlainTokenSeqs ==
    UNION {[1..k -> PlainTokens] : k \in 0..MaxTokens}

\* "a\"b" and "a\\b" of the specification, and neighbours of them
ex_escaped_quote ==
    <<QUOTE, "a", BACKSLASH, QUOTE, "b", QUOTE>>

ex_escaped_backslash ==
    <<QUOTE, "a", BACKSLASH, BACKSLASH, "b", QUOTE>>

ex_escaped_twice ==
    <<QUOTE, BACKSLASH, BACKSLASH, BACKSLASH, QUOTE, "b", QUOTE, " ", "a", BACKSLASH, "b">>

TokScenarios ==
    {ex_escaped_quote, ex_escaped_backslash, ex_escaped_twice}

TokStrings ==
    {concat_pieces(ps) : ps \in UNION {[1..k -> TokPieces] : k \in 0..MaxPieces}}
    \cup {JoinSpaces(ts) : ts \in PlainTokenSeqs}
    \cup TokScenarios

InitTok ==
    /\ compile_result \in {[ok |-> TRUE, success |-> TRUE, stdout |-> <<s>>] :
                              s \in TokStrings}
    /\ windows = FALSE
    /\ output_lib_link_file = p_lib_rsp
    /\ fs = [linker |-> NoFile, lib |-> NoFile, def |-> NoFile, sources |-> {}]
    /\ fs0 = fs
    /\ pc = "start"
    /\ args = <<>>
    /\ idx = 0
    /\ exit_code = -1
    /\ diag = {}
    /\ classified = <<>>

\* args = parse_quotes(&last_line)
Tokenize ==
    /\ pc = "start"
    /\ args' = parse_quotes(last_line)
    /\ pc' = "tokenized"
    /\ UNCHANGED <<inputs, fs, idx, exit_code, diag, classified>>

NextTok ==
    Tokenize

SpecTok ==
    InitTok /\ [][NextTok]_vars

(***************************************************************************)
(* C11 (as stated): for any sequence of tokens none of which contains a    *)
(* double quote or a backslash, parse_quotes of the tokens joined with     *)
(* single spaces is the sequence itself.                                    *)
(***************************************************************************)
C11_RoundTripAsStated ==
    \A ts \in PlainTokenSeqs :
        (pc = "tokenized" /\ last_line = JoinSpaces(ts)) => args = ts

(***************************************************************************)
(* C11 (amended): for any sequence of (non-empty) tokens none of which     *)
(* contains a space, a double quote or a backslash, parse_quotes of the    *)
(* tokens joined with single spaces is the sequence itself.                *)
(***************************************************************************)
C11_RoundTrip ==
    \A ts \in PlainTokenSeqs :
        (/\ pc = "tokenized"
         /\ last_line = JoinSpaces(ts)
         /\ \A i \in 1..Len(ts) : \A j \in 1..Len(ts[i]) : ts[i][j] # SPACE) =>
            args = ts

\* three different tokens joined and tokenized again
C11_Witness ==
    /\ pc = "tokenized"
    /\ last_line = JoinSpaces(<<tok_a, s_dot_def, tok_a_def>>)
    /\ args = <<tok_a, s_dot_def, tok_a_def>>


(***************************************************************************)
(* C12: inside quotes a backslash that is not itself escaped is dropped    *)
(* and the one character after it, a backslash or a double quote included, *)
(* is taken literally without ending the quoted segment; escaping ends     *)
(* after that character.  So "a\"b" gives the single token a"b and "a\\b"  *)
(* the single token a\b.  Outside quotes a backslash is an ordinary        *)
(* character.                                                               *)
(***************************************************************************)
\* the text of a quoted segment with its escapes resolved
RECURSIVE Unescaped(_)
Unescaped(body) ==
    IF body = <<>> THEN <<>>
    ELSE IF body[1] = BACKSLASH /\ Len(body) >= 2
         THEN <<body[2]>> \o Unescaped(SubSeq(body, 3, Len(body)))
         ELSE <<body[1]>> \o Unescaped(SubSeq(body, 2, Len(body)))

\* body is the whole inside of one quoted segment: every double quote in it is
\* escaped and it does not end in the middle of an escape
RECURSIVE ClosedBody(_)
ClosedBody(body) ==
    IF body = <<>> THEN TRUE
    ELSE IF body[1] = BACKSLASH
         THEN Len(body) >= 2 /\ ClosedBody(SubSeq(body, 3, Len(body)))
         ELSE body[1] # QUOTE /\ ClosedBody(SubSeq(body, 2, Len(body)))

WithoutSpaces(s) ==
    SelectSeq(s, LAMBDA c : c # SPACE)

C12_Escaping ==
    pc = "tokenized" =>
        /\ last_line = ex_escaped_quote => args = << <<"a", QUOTE, "b">> >>
        /\ last_line = ex_escaped_backslash => args = << <<"a", BACKSLASH, "b">> >>
        /\ (/\ Len(last_line) >= 2
            /\ last_line[1] = QUOTE
            /\ last_line[Len(last_line)] = QUOTE
            /\ ClosedBody(SubSeq(last_line, 2, Len(last_line) - 1))) =>
               LET body == SubSeq(last_line, 2, Len(last_line) - 1)
               IN  args = IF body = <<>> THEN <<>> ELSE <<Unescaped(body)>>
        /\ (\A i \in 1..Len(last_line) : last_line[i] # QUOTE) =>
               /\ concat_pieces(args) = WithoutSpaces(last_line)
               /\ \A i \in 1..Len(args) : \A j \in 1..Len(args[i]) : args[i][j] # SPACE

\* "a\"b" has been tokenized into the one token a"b
C12_Witness ==
    /\ pc = "tokenized"
    /\ last_line = ex_escaped_quote
    /\ args = << <<"a", QUOTE, "b">> >>


(***************************************************************************)
(* C13: for every input string no token returned by parse_quotes is the    *)
(* empty string: runs of spaces, an empty quoted segment "" and a quote    *)
(* opened right after a space or at the end of the input produce no token. *)
(***************************************************************************)
C13_NoEmptyToken ==
    pc = "tokenized" => \A i \in 1..Len(args) : args[i] # <<>>

\* a, two spaces and an empty quoted segment: the one token a
C13_Witness ==
    /\ pc = "tokenized"
    /\ last_line = <<"a", SPACE, SPACE, QUOTE, QUOTE>>
    /\ args = <<tok_a>>

(***************************************************************************)
(* C20: for every line that contains ".def", whatever its quoting and      *)
(* escaping, parse_quotes returns at least one token, so the abort on an   *)
(* empty token list cannot happen after the ".def" gate.                    *)
(***************************************************************************)
C20_GatedLineHasToken ==
    (pc = "tokenized" /\ contains(last_line, <<".", "d", "e", "f">>)) => args # <<>>

\* .def inside a quote that is never closed, after an escape: still a token
C20_Witness ==
    /\ pc = "tokenized"
    /\ last_line = <<QUOTE, BACKSLASH, ".", "d", "e", "f">>
    /\ args = << <<".", "d", "e", "f">> >>


(***************************************************************************)
(* C14: when the line passes the ".def" gate both output files are created *)
(* and emptied before the first token is validated or classified: at       *)
(* validation both exist and are empty and no token has been classified,   *)
(* during the loop both exist and hold nothing of their prior contents,    *)
(* and at the end of a successful pass a file no token was routed to       *)
(* exists and is empty.                                                     *)
(***************************************************************************)
C14_CreatedBeforeTokens ==
    /\ pc = "validate" =>
           /\ fs.linker = [exists |-> TRUE, lines |-> <<>>]
           /\ fs.lib = [exists |-> TRUE, lines |-> <<>>]
           /\ idx = 0
           /\ classified = <<>>
    /\ (pc = "loop" \/ (Finished /\ exit_code = EXIT_SUCCESS)) =>
           \A which \in {"linker", "lib"} :
               /\ fs[which].exists
               /\ \A k \in 1..Len(fs[which].lines) : fs[which].lines[k] # line_stale
               /\ LinesInTokenOrder(which, Len(classified)) = <<>> =>
                      fs[which] = [exists |-> TRUE, lines |-> <<>>]

\* the archiver file held a stale line, no token of the line goes to it: empty at the end
C14_Witness ==
    /\ Finished
    /\ exit_code = EXIT_SUCCESS
    /\ last_line = line_raw_libpath
    /\ fs0.lib = StaleFile
    /\ fs.lib = EmptyFile
    /\ fs.linker.lines # <<>>


\* the text between the first character and the first ":" (or the end)
FlagName(t) ==
    LET colon == find(t, ":")
    IN  SubSeq(t, 2, IF colon = 0 THEN Len(t) ELSE colon - 1)

\* the text after the first ":"
FlagValue(t) ==
    LET colon == find(t, ":")
    IN  IF colon = 0 THEN <<>> ELSE SubSeq(t, colon + 1, Len(t))

ForwardedNames ==
    {<<"L", "I", "B", "P", "A", "T", "H">>, <<"I", "M", "P", "L", "I", "B">>}

ListedNames ==
    ForwardedNames \cup {<<"f", "l", "a", "v", "o", "r">>, <<"D", "E", "F">>}

FlagLine(name, value) ==
    <<"/">> \o name \o <<":">> \o Quoted(value)

(***************************************************************************)
(* C15: an iteration on a flag-shaped token whose option name is LIBPATH   *)
(* or IMPLIB appends exactly the line /<NAME>:"<value>" to the linker file *)
(* and leaves the archiver file as it is; an iteration on a flag-shaped    *)
(* token whose option name is none of flavor, LIBPATH, IMPLIB, DEF leaves  *)
(* the whole file system as it is.                                          *)
(***************************************************************************)
C15_ClosedAllowlist ==
    [][\A i \in 1..Len(args) :
          (ClassifiedStep(args[i]) /\ idx + 1 = i /\ FlagShaped(args[i])) =>
             /\ FlagName(args[i]) \in ForwardedNames =>
                    /\ fs'.linker.lines =
                           Append(fs.linker.lines,
                                  FlagLine(FlagName(args[i]), FlagValue(args[i])))
                    /\ fs'.lib = fs.lib
                    /\ fs'.def = fs.def
             /\ FlagName(args[i]) \notin ListedNames => fs' = fs]_vars

\* /IMPLIB:t.exe gave one linker line and /OUT:a.dll, classified last, gave nothing
C15_Witness ==
    /\ Finished
    /\ exit_code = EXIT_SUCCESS
    /\ last_line = line_exe_flags
    /\ LastClassified = <<"/", "O", "U", "T", ":", "a", ".", "d", "l", "l">>
    /\ fs.linker.lines = <<ExpectedDefLine, out_implib_t_exe, out_m_def>>
    /\ fs.lib.lines = <<ExpectedDefLine>>


\* the token is a flag whose option name is flavor
FlavorFlag(t) ==
    FlagShaped(t) /\ FlagName(t) = <<"f", "l", "a", "v", "o", "r">>

(***************************************************************************)
(* C16: an iteration on a flag token whose option name is flavor writes    *)
(* nothing and moves the index two tokens on, so exactly the one token     *)
(* after it is never classified: it adds no line and causes no copy,       *)
(* whatever its shape; the token after that one is classified next; and    *)
(* when the flavor flag is the last token the pass still ends with exit    *)
(* code 0.                                                                  *)
(***************************************************************************)
C16_FlavorSkip ==
    /\ [][\A i \in 1..Len(args) :
            (ClassifiedStep(args[i]) /\ idx + 1 = i /\ FlavorFlag(args[i])) =>
                (fs' = fs /\ idx' = idx + 2)]_vars
    /\ []((args # <<>> /\ ~IoFailed) =>
            /\ \A n \in 1..Len(classified) :
                   LET this == classified[n]
                       step == IF FlavorFlag(args[this + 1]) THEN 2 ELSE 1
                       following == IF n < Len(classified) THEN classified[n + 1] ELSE idx
                   IN  following = this + step
            /\ fs.linker.lines = LinesInTokenOrder("linker", Len(classified))
            /\ fs.lib.lines = LinesInTokenOrder("lib", Len(classified))
            /\ (\A n \in 1..Len(classified) :
                    ~(FlagShaped(args[classified[n] + 1])
                        /\ FlagName(args[classified[n] + 1]) = <<"D", "E", "F">>)) =>
                   fs.def = fs0.def
            /\ (Finished /\ classified # <<>> /\ FlavorFlag(LastClassified)) =>
                   (exit_code = EXIT_SUCCESS /\ idx = classified[Len(classified)] + 2))

\* /DEF:s.def after -flavor is skipped, foo.o after it is classified, -flavor ends the line
C16_Witness ==
    /\ Finished
    /\ exit_code = EXIT_SUCCESS
    /\ last_line = line_flavor_skip
    /\ p_s_def \in fs.sources
    /\ classified = <<0, 1, 3, 4>>
    /\ idx = 6
    /\ fs.linker.lines = <<>>
    /\ fs.lib.lines = <<out_foo_o>>
    /\ fs.def = fs0.def


(***************************************************************************)
(* C17 (as stated): the iteration on the first token, the validated front  *)
(* end, writes no line to either file, copies no module-definition file    *)
(* and moves the index to the second token only, also when the first token *)
(* is flag-shaped.                                                          *)
(***************************************************************************)
C17_FrontEndNotClassified ==
    [][(args # <<>> /\ ClassifiedStep(args[1]) /\ idx = 0) =>
           /\ fs'.linker = fs.linker
           /\ fs'.lib = fs.lib
           /\ fs'.def = fs.def
           /\ idx' = 1]_vars


(***************************************************************************)
(* The loop on its own thread of control: the runs start on one platform   *)
(* with no output file yet and every source on disk, and once the loop is  *)
(* entered an iteration that can run does run, and so does the return      *)
(* that follows the last one.                                               *)
(***************************************************************************)
InitLive ==
    /\ Init
    /\ ~windows
    /\ output_lib_link_file = p_lib_rsp
    /\ fs.linker = NoFile
    /\ fs.sources = Sources

SpecLive ==
    InitLive /\ [][Next]_vars /\ WF_vars(Classify \/ Done)

(***************************************************************************)
(* C18: once validation has passed, every iteration of the loop moves the  *)
(* token index forward, by 2 on a flavor flag and by 1 otherwise, and no   *)
(* step moves it backward; at most one iteration is run per token; and the *)
(* loop always ends: with exit code 0 unless an I/O call failed.            *)
(***************************************************************************)
C18_Termination ==
    /\ [][pc = "loop" =>
            /\ idx' >= idx
            /\ pc' = "loop" =>
                   idx' = idx + (IF FlavorFlag(args[idx + 1]) THEN 2 ELSE 1)]_vars
    /\ [](/\ Len(classified) <= Len(args)
          /\ \A m, n \in 1..Len(classified) : m < n => classified[m] < classified[n])
    /\ (pc = "loop") ~> (pc = "exited" /\ (IoFailed \/ exit_code = EXIT_SUCCESS))

\* the seven tokens of the routing line took seven iterations, then the pass ended
C18_Witness ==
    /\ Finished
    /\ exit_code = EXIT_SUCCESS
    /\ last_line = line_routing
    /\ classified = <<0, 1, 2, 3, 4, 5, 6>>
    /\ idx = Len(args)


\* the copy of a module-definition file has failed
CopyFailed ==
    "Failed to copy def file" \in diag

(***************************************************************************)
(* C19: when the source of a DEF flag exists and copying it fails, the run *)
(* is over at that token with a nonzero exit code: the token is the last   *)
(* one classified, the files hold the lines of the tokens before it and no *)
(* /DEF line for it, and no further step is taken.                          *)
(***************************************************************************)
C19_CopyFailureFatal ==
    CopyFailed =>
        /\ pc = "exited"
        /\ exit_code # EXIT_SUCCESS
        /\ ~ENABLED Next
        /\ classified # <<>>
        /\ FlagShaped(LastClassified)
        /\ FlagName(LastClassified) = <<"D", "E", "F">>
        /\ FlagValue(LastClassified) \in fs.sources
        /\ fs.linker.lines = LinesInTokenOrder("linker", Len(classified) - 1)
        /\ fs.lib.lines = LinesInTokenOrder("lib", Len(classified) - 1)

\* link.exe m.def /DEF:s.def with s.def on disk: the copy fails after "m.def" was written
C19_Witness ==
    /\ CopyFailed
    /\ pc = "exited"
    /\ exit_code = PANIC_EXIT
    /\ args = <<w_link, w_m_def, w_def>>
    /\ LastClassified = w_def
    /\ p_s_def \in fs.sources
    /\ fs.linker.lines = <<out_m_def>>
    /\ fs.lib.lines = <<>>

====
